---------------------------- MODULE Spec2Model ----------------------------
(***************************************************************************)
(* Task Manager backend (services/backend/src/index.js), its PostgreSQL    *)
(* schema (the init script) and the Redis cache in front of the read       *)
(* routes.  Every route handler is an asynchronous function: it runs       *)
(* atomically between two awaits, and any other handler may run at an      *)
(* await.  One action of this module is one such atomic piece.             *)
(***************************************************************************)
EXTENDS Integers, Sequences, FiniteSets, TLC

VARIABLES
    store,           \* table tasks: id -> row
    nextId,          \* next value of the SERIAL sequence of tasks.id
    clock,           \* the database's CURRENT_TIMESTAMP / NOW()
    redisConnected,  \* the flag of index.js:54
    cache,           \* Redis: key -> [data, exp]
    time,            \* Redis' clock, in seconds
    req,             \* the requests in flight, one per slot
    last,            \* the request answered last, with its response
    hist,            \* history: faulted, a cache call was skipped or failed;
                     \* dropped, the keys invalidations have deleted;
                     \* lastWrite, Redis' time at the last committed write;
                     \* commits, the writes committed; made, the ids of the
                     \* rows inserted, in order
    client           \* the page of App.jsx: its React state, its fetches in
                     \* flight, and what its writes were answered

vars == <<store, nextId, clock, redisConnected, cache, time, req, last, hist,
          client>>

\* ------------------------------------------------------------------ bounds
NReq == 2          \* requests in flight at once
SeedRows == 0      \* sample rows in the table at start (the init script has 8)
MaxInserts == 1    \* INSERTs a behaviour may commit
MaxUpdates == 1    \* UPDATEs a behaviour may commit
Delay == 2         \* seconds after which Redis' clock is first looked at
MaxCreates == 2    \* INSERTs a behaviour of SpecCreate or SpecClient may commit
NCalls == 2        \* writes the page has in flight at once
NWrites == 3       \* writes the page sends in a behaviour of SpecClient

\* ------------------------------------------------------- program constants
ListTTL == 60
ItemTTL == 300

Slots == 1..NReq
MaxId == SeedRows + MaxInserts
MaxClock == MaxInserts + MaxUpdates
\* the instants at which Redis' clock is looked at: the start, a little
\* later, and just before an entry set a little later expires
Instants == {0, Delay, ListTTL + Delay - 1, ItemTTL + Delay - 1}

\* ------------------------------------------------------------------ values
SqlNull == "NULL"            \* JSON null / SQL NULL of a scalar field
Undefined == "undefined"     \* a field the body does not hold
Nil == [null |-> TRUE]       \* JS null of an object-valued variable
Undef == [undefined |-> TRUE]  \* JS undefined of an object-valued variable

Arr(seq) == [items |-> seq]
IsArr(v) == "items" \in DOMAIN v

\* v === undefined
IsUndefined(v) == v = Undefined

\* !v of JavaScript, for a scalar body field
Falsy(v) == v \in {Undefined, SqlNull, ""}
\* a test that takes the empty array for nothing
TruthyNonEmpty(v) == v # Nil /\ v # Undef /\ (IsArr(v) => Len(v.items) > 0)

\* if (v) of JavaScript, for an object-valued variable: arrays and objects
\* are truthy, the empty array included
Truthy(v) == v # Nil /\ v # Undef

\* ------------------------------------------------------------------- schema
\* the table without DEFAULT FALSE on completed
NewRowNoDefault(id, title, description, now) ==
    [id |-> id, title |-> title, description |-> description,
     completed |-> SqlNull, created_at |-> now, updated_at |-> now]

\* CREATE TABLE tasks: the columns and their defaults
NewRow(id, title, description, now) ==
    [id |-> id, title |-> title, description |-> description,
     completed |-> "false", created_at |-> now, updated_at |-> now]

\* title VARCHAR(255) NOT NULL: the only constraint a statement can violate
NotNullViolated(row) == row.title = SqlNull

\* the sample rows of the init script: one INSERT, one CURRENT_TIMESTAMP
SeedStore == [i \in 1..SeedRows |-> NewRow(i, "seed", "sample", 0)]

\* the id column is an integer: the text parameter of WHERE id = $1 is
\* parsed by PostgreSQL, which rejects what is not a number
IsIntText(s) == \E n \in 1..(MaxId + 1) : ToString(n) = s
ParseInt(s) == CHOOSE n \in 1..(MaxId + 1) : ToString(n) = s

\* ------------------------------------------------------------ pg -> JS -> JSON
\* node-postgres hands a TIMESTAMP as a Date; JSON.stringify writes a Date as
\* its ISO string, and JSON.parse leaves that string a string
PgRow(row) == [row EXCEPT !.created_at = [date |-> row.created_at],
                          !.updated_at = [date |-> row.updated_at]]
TsToJSON(ts) == IF "date" \in DOMAIN ts THEN [iso |-> ts.date] ELSE ts
RowToJSON(row) == [row EXCEPT !.created_at = TsToJSON(row.created_at),
                              !.updated_at = TsToJSON(row.updated_at)]
ToJSON(v) ==
    IF IsArr(v) THEN Arr([i \in DOMAIN v.items |-> RowToJSON(v.items[i])])
    ELSE RowToJSON(v)
\* a JSON text is held as the value it denotes
JsonStringify(v) == [json |-> ToJSON(v)]
JsonParse(text) == text.json

\* SELECT ... FROM tasks ORDER BY created_at DESC: rows of equal created_at
\* come in any order
OrderedLists(st) ==
    LET ids == DOMAIN st
        n == Cardinality(ids)
    IN  { [i \in 1..n |-> PgRow(st[f[i]])] :
            f \in { g \in [1..n -> ids] :
                      /\ \A i, j \in 1..n : i # j => g[i] # g[j]
                      /\ \A i, j \in 1..n :
                            i < j => st[g[i]].created_at >= st[g[j]].created_at } }

\* SELECT ... FROM tasks WHERE id = $1
SelectById(st, n) == IF n \in DOMAIN st THEN <<PgRow(st[n])>> ELSE <<>>

\* --------------------------------------------------------------- the cache
CacheKeyAll == "tasks:all"
CacheKeyId(id) == "tasks:" \o id

\* the keys Redis still holds: an entry is gone once its expiration is reached
LiveKeys == {k \in DOMAIN cache : cache[k].exp > time}

\* getFromCache without its try/catch: what redisClient.get throws reaches
\* the handler
getFromCacheNoCatch(key) ==
    IF ~redisConnected THEN {[val |-> Nil, ev |-> "cache_off", thrown |-> FALSE]}
    ELSE {[val |-> Nil, ev |-> "get_throw", thrown |-> TRUE],
          [val |-> IF key \in LiveKeys THEN JsonParse(cache[key].data) ELSE Nil,
           ev |-> "get_ok", thrown |-> FALSE]}

\* getFromCache(key): what it may return; its catch absorbs what
\* redisClient.get or JSON.parse throws, so nothing is thrown to the handler
getFromCache(key) ==
    IF ~redisConnected THEN {[val |-> Nil, ev |-> "cache_off", thrown |-> FALSE]}
    ELSE {[val |-> Nil, ev |-> "get_throw", thrown |-> FALSE],
          [val |-> IF key \in LiveKeys THEN JsonParse(cache[key].data) ELSE Nil,
           ev |-> "get_ok", thrown |-> FALSE]}

\* setInCache(key, value, expirationSeconds): the caches it may leave
setInCache(key, value, expirationSeconds) ==
    IF ~redisConnected THEN {[cache |-> cache, ev |-> "cache_off", thrown |-> FALSE]}
    ELSE {[cache |-> cache, ev |-> "set_throw", thrown |-> FALSE],
          [cache |-> [k \in LiveKeys \cup {key} |->
                        IF k = key
                        THEN [data |-> JsonStringify(value),
                              exp |-> time + expirationSeconds]
                        ELSE cache[k]],
           ev |-> "set_ok", thrown |-> FALSE]}

\* the pattern taken as the name of one key
KeysMatchingLiteral(pattern) == {k \in LiveKeys : k = pattern}

\* redisClient.keys(pattern): every key of the model starts with tasks:
KeysMatching(pattern) == IF pattern = "tasks:*" THEN LiveKeys ELSE {}

\* invalidateCache without its try/catch
invalidateCacheKeysNoCatch(pattern) ==
    IF ~redisConnected
    THEN {[keys |-> {}, ev |-> "inv_skip", more |-> FALSE, thrown |-> FALSE]}
    ELSE {[keys |-> {}, ev |-> "inv_fail", more |-> FALSE, thrown |-> TRUE],
          IF KeysMatching(pattern) = {}
          THEN [keys |-> {}, ev |-> "inv_done", more |-> FALSE, thrown |-> FALSE]
          ELSE [keys |-> KeysMatching(pattern), ev |-> "inv_keys", more |-> TRUE,
                thrown |-> FALSE]}

\* invalidateCache(pattern) up to the end of its first await: the flag, then
\* redisClient.keys; more is true when redisClient.del is still to be called
invalidateCacheKeys(pattern) ==
    IF ~redisConnected
    THEN {[keys |-> {}, ev |-> "inv_skip", more |-> FALSE, thrown |-> FALSE]}
    ELSE {[keys |-> {}, ev |-> "inv_fail", more |-> FALSE, thrown |-> FALSE],
          IF KeysMatching(pattern) = {}
          THEN [keys |-> {}, ev |-> "inv_done", more |-> FALSE, thrown |-> FALSE]
          ELSE [keys |-> KeysMatching(pattern), ev |-> "inv_keys", more |-> TRUE,
                thrown |-> FALSE]}

\* invalidateCache from redisClient.del(keys) on
invalidateCacheDel(keys) ==
    {[cache |-> cache, ev |-> "inv_fail", thrown |-> FALSE]}
    \cup IF redisConnected
         THEN {[cache |-> [k \in LiveKeys \ keys |-> cache[k]], ev |-> "inv_done",
                thrown |-> FALSE]}
         ELSE {}

\* ---------------------------------------------------------------- requests
NoBody == [title |-> Undefined, description |-> Undefined, completed |-> Undefined]
Body(t, d, c) == [title |-> t, description |-> d, completed |-> c]
NoResp == [status |-> 0]

\* A request: the route (op), the place of its handler (pc), its inputs
\* (id, body), the handler's locals (val: cachedData / tasks / task / newTask /
\* updatedTask; keys: the keys invalidateCache scanned) and its response.
\* History, read by the properties only: ev, the handler's calls in order;
\* quiet, whether no write was between its commit and its response when the
\* request arrived; seen, the writes committed by then; dirty, whether a write
\* committed while the request was in flight; truth, what the handler's Store
\* read yielded; fresh, whether the response is what the Store holds when it
\* is sent.
IdleReq == [op |-> "idle", pc |-> "idle", id |-> "", body |-> NoBody,
            val |-> Nil, keys |-> {}, resp |-> NoResp, ev |-> <<>>,
            quiet |-> FALSE, seen |-> 0, dirty |-> FALSE, truth |-> NoResp,
            fresh |-> FALSE]

Reads == {"list", "get"}
Writes == {"post", "put", "delete"}

\* a write whose statement has committed and whose response is not sent yet
InWriteWindow(q) == q.op \in Writes /\ q.pc \in {"inv_keys", "inv_del"}
Quiet == \A s \in Slots : ~InWriteWindow(req[s])

Arrive(op, id, body) ==
    [IdleReq EXCEPT !.op = op, !.id = id, !.body = body, !.quiet = Quiet,
                    !.seen = hist.commits]

\* what the Store alone answers to a read, as <<status, data>>
StoreAnswers(op, id, st) ==
    IF op = "list"
    THEN {[status |-> 200, data |-> ToJSON(Arr(l))] : l \in OrderedLists(st)}
    ELSE IF ~IsIntText(id) THEN {[status |-> 500]}
    ELSE IF ParseInt(id) \in DOMAIN st
         THEN {[status |-> 200, data |-> ToJSON(PgRow(st[ParseInt(id)]))]}
         ELSE {[status |-> 404]}

Answer(resp) ==
    IF resp.status = 200 THEN [status |-> 200, data |-> resp.body.data]
    ELSE [status |-> resp.status]

\* res.status(status).json(body)
Respond(q, status, body) ==
    LET resp == [status |-> status, body |-> body]
    IN  [q EXCEPT !.pc = "done", !.resp = resp, !.ev = Append(@, "respond"),
                  !.val = Nil, !.keys = {}, !.seen = 0,
                  !.dirty = q.op \in Reads /\ q.seen # hist.commits,
                  !.fresh = q.op \in Reads /\ Answer(resp) \in StoreAnswers(q.op, q.id, store)]

Log(q, e) == [q EXCEPT !.ev = Append(@, e)]

\* the handler of slot r is at pc, and no response is being written
Ready == last.pc = "idle"
At(r, pc) == Ready /\ req[r].pc = pc

\* the handler of slot r goes on as q / sends its response and ends
Goto(r, q) == req' = [req EXCEPT ![r] = q] /\ last' = last
Reply(r, q, status, body) ==
    req' = [req EXCEPT ![r] = IdleReq] /\ last' = Respond(q, status, body)

Ok(data) == [success |-> TRUE, data |-> ToJSON(data)]
OkRead(data, cached) ==
    [success |-> TRUE, data |-> ToJSON(data), cached |-> cached]
Err(msg) == [success |-> FALSE, error |-> msg]

\* a cache call was skipped or failed
CacheFaults == {"cache_off", "get_throw", "set_throw", "inv_skip", "inv_fail"}
Faulted(e) == hist' = [hist EXCEPT !.faulted = @ \/ e \in CacheFaults]

\* the catch of every route: res.status(500).json({success: false, error})
Catch(r, q, e) == Reply(r, Log(q, e), 500, Err(e))

\* ------------------------------------------------------------ GET /api/tasks
ListStart(r) ==
    /\ At(r, "idle")
    /\ \E g \in getFromCache(CacheKeyAll) :
          LET q == Log(Arrive("list", "", NoBody), g.ev)
          IN  /\ IF g.thrown THEN Catch(r, q, "cache_error")
                 ELSE IF Truthy(g.val) THEN Reply(r, q, 200, OkRead(g.val, TRUE))
                 ELSE Goto(r, [q EXCEPT !.pc = "list_query"])
              /\ Faulted(g.ev)
    /\ UNCHANGED <<store, nextId, clock, redisConnected, cache, time, client>>

ListQuery(r) ==
    /\ At(r, "list_query")
    /\ \/ Catch(r, [req[r] EXCEPT !.truth = [status |-> 500]], "store_fail")
       \/ \E rows \in OrderedLists(store) :
             Goto(r, Log([req[r] EXCEPT !.pc = "list_set", !.val = Arr(rows),
                                        !.truth = [status |-> 200,
                                                   data |-> ToJSON(Arr(rows))]],
                         "query_ok"))
    /\ UNCHANGED <<store, nextId, clock, redisConnected, cache, time, hist, client>>

ListSet(r) ==
    /\ At(r, "list_set")
    /\ \E s \in setInCache(CacheKeyAll, req[r].val, ListTTL) :
          /\ cache' = s.cache
          /\ Faulted(s.ev)
          /\ IF s.thrown THEN Catch(r, Log(req[r], s.ev), "cache_error")
             ELSE Reply(r, Log(req[r], s.ev), 200, OkRead(req[r].val, FALSE))
    /\ UNCHANGED <<store, nextId, clock, redisConnected, time, client>>

\* -------------------------------------------------------- GET /api/tasks/:id
GetStart(r, id) ==
    /\ At(r, "idle")
    /\ \E g \in getFromCache(CacheKeyId(id)) :
          LET q == Log(Arrive("get", id, NoBody), g.ev)
          IN  /\ IF g.thrown THEN Catch(r, q, "cache_error")
                 ELSE IF Truthy(g.val) THEN Reply(r, q, 200, OkRead(g.val, TRUE))
                 ELSE Goto(r, [q EXCEPT !.pc = "get_query"])
              /\ Faulted(g.ev)
    /\ UNCHANGED <<store, nextId, clock, redisConnected, cache, time, client>>

GetQuery(r) ==
    /\ At(r, "get_query")
    /\ LET q == req[r]
           rows == SelectById(store, ParseInt(q.id))
       IN  \/ Catch(r, [q EXCEPT !.truth = [status |-> 500]], "store_fail")
           \/ /\ IsIntText(q.id)
              /\ IF Len(rows) = 0
                 THEN Reply(r, Log([q EXCEPT !.truth = [status |-> 404]], "query_ok"),
                            404, Err("Task not found"))
                 ELSE Goto(r, Log([q EXCEPT !.pc = "get_set", !.val = rows[1],
                                            !.truth = [status |-> 200,
                                                       data |-> ToJSON(rows[1])]],
                                  "query_ok"))
    /\ UNCHANGED <<store, nextId, clock, redisConnected, cache, time, hist, client>>

GetSet(r) ==
    /\ At(r, "get_set")
    /\ \E s \in setInCache(CacheKeyId(req[r].id), req[r].val, ItemTTL) :
          /\ cache' = s.cache
          /\ Faulted(s.ev)
          /\ IF s.thrown THEN Catch(r, Log(req[r], s.ev), "cache_error")
             ELSE Reply(r, Log(req[r], s.ev), 200, OkRead(req[r].val, FALSE))
    /\ UNCHANGED <<store, nextId, clock, redisConnected, time, client>>

\* ------------------------------------------------------------ the write routes
\* the success response of a write
Succeed(r, q) ==
    CASE q.op = "post" -> Reply(r, q, 201, Ok(q.val))
      [] q.op = "put" ->
            Reply(r, q, 200, IF q.val = Undef THEN [success |-> TRUE] ELSE Ok(q.val))
      [] q.op = "delete" ->
            Reply(r, q, 200, [success |-> TRUE, message |-> "Task deleted successfully",
                              id |-> q.val.id])

\* invalidateCache called without await: the handler answers at once
AfterStatementNoAwait(r, q) == Succeed(r, q)

\* the statement of a write has returned: the handler awaits invalidateCache
\* before it answers
AfterStatement(r, q) == Goto(r, [q EXCEPT !.pc = "inv_keys"])

\* a write has committed
Commit == hist' = [hist EXCEPT !.lastWrite = time, !.commits = @ + 1]

\* await invalidateCache('tasks:*'), to the end of redisClient.keys
InvKeys(r) ==
    /\ At(r, "inv_keys")
    /\ \E i \in invalidateCacheKeys("tasks:*") :
          LET q == Log(Log(req[r], "inv_call"), i.ev)
          IN  /\ IF i.thrown THEN Catch(r, q, "cache_error")
                 ELSE IF i.more THEN Goto(r, [q EXCEPT !.pc = "inv_del", !.keys = i.keys])
                 ELSE Succeed(r, q)
              /\ Faulted(i.ev)
    /\ UNCHANGED <<store, nextId, clock, redisConnected, cache, time, client>>

\* await invalidateCache('tasks:*'), redisClient.del
InvDel(r) ==
    /\ At(r, "inv_del")
    /\ \E i \in invalidateCacheDel(req[r].keys) :
          /\ cache' = i.cache
          /\ IF i.thrown THEN Catch(r, Log(req[r], i.ev), "cache_error")
             ELSE Succeed(r, Log(req[r], i.ev))
          /\ hist' = [hist EXCEPT !.faulted = @ \/ i.ev \in CacheFaults,
                                  !.dropped = @ \cup (IF i.ev = "inv_done"
                                                      THEN req[r].keys \cap LiveKeys
                                                      ELSE {})]
    /\ UNCHANGED <<store, nextId, clock, redisConnected, time, client>>

\* ----------------------------------------------------------- POST /api/tasks
\* a sequence that does not advance
SerialStuck(seq) == seq

\* nextval of the sequence behind id SERIAL: a value is handed out once
SerialNext(seq) == seq + 1

\* the handler, with the ids and timestamps the database may still hand out
Create(r, body, maxId, maxClock) ==
    /\ At(r, "idle")
    /\ LET q == Arrive("post", "", body)
           description == IF Falsy(body.description) THEN "" ELSE body.description
           row == NewRow(nextId, body.title, description, clock + 1)
       IN  IF Falsy(body.title)
           THEN /\ Reply(r, q, 400, Err("Title is required"))
                /\ UNCHANGED <<store, nextId, clock, hist>>
           ELSE \/ /\ Catch(r, q, "store_fail")
                   /\ UNCHANGED <<store, nextId, clock, hist>>
                \/ /\ nextId <= maxId
                   /\ clock < maxClock
                   /\ store' = [n \in DOMAIN store \cup {nextId} |->
                                  IF n = nextId THEN row ELSE store[n]]
                   /\ nextId' = SerialNext(nextId)
                   /\ clock' = clock + 1
                   /\ AfterStatement(r, Log([q EXCEPT !.val = PgRow(row)], "stmt_ok"))
                   /\ hist' = [hist EXCEPT !.lastWrite = time, !.commits = @ + 1,
                                           !.made = Append(@, nextId)]
    /\ UNCHANGED <<redisConnected, cache, time, client>>

PostStart(r, body) == Create(r, body, MaxId, MaxClock)

\* -------------------------------------------------------- PUT /api/tasks/:id
Supplied(body) == {f \in {"title", "description", "completed"} : body[f] # Undefined}

\* UPDATE tasks SET <the supplied fields>, updated_at = NOW() WHERE id = $n,
\* and the trigger update_tasks_updated_at
UpdatedRow(row, body, now) ==
    [f \in DOMAIN row |->
        IF f \in Supplied(body) THEN body[f]
        ELSE IF f = "updated_at" THEN now
        ELSE row[f]]

\* the existence check, then the building of the statement
PutStart(r, id, body) ==
    /\ At(r, "idle")
    /\ LET q == Arrive("put", id, body)
       IN  \/ Catch(r, q, "store_fail")
           \/ /\ IsIntText(id)
              /\ IF Len(SelectById(store, ParseInt(id))) = 0
                 THEN Reply(r, Log(q, "query_ok"), 404, Err("Task not found"))
                 ELSE IF Supplied(body) = {}
                 THEN Reply(r, Log(q, "query_ok"), 400, Err("No fields to update"))
                 ELSE Goto(r, [Log(q, "query_ok") EXCEPT !.pc = "put_update"])
    /\ UNCHANGED <<store, nextId, clock, redisConnected, cache, time, hist, client>>

\* the UPDATE ... RETURNING and updatedTask = result.rows[0]
PutUpdate(r) ==
    /\ At(r, "put_update")
    /\ LET q == req[r]
           n == ParseInt(q.id)
           row == UpdatedRow(store[n], q.body, clock + 1)
       IN  \/ /\ Catch(r, q, "store_fail")
              /\ UNCHANGED <<store, clock, hist>>
           \/ /\ n \in DOMAIN store
              /\ NotNullViolated(row)
              /\ Catch(r, q, "not_null")
              /\ UNCHANGED <<store, clock, hist>>
           \/ /\ n \in DOMAIN store
              /\ ~NotNullViolated(row)
              /\ clock < MaxClock
              /\ store' = [store EXCEPT ![n] = row]
              /\ clock' = clock + 1
              /\ AfterStatement(r, Log([q EXCEPT !.val = PgRow(row)], "stmt_ok"))
              /\ Commit
           \/ /\ n \notin DOMAIN store
              /\ AfterStatement(r, Log([q EXCEPT !.val = Undef], "stmt_ok"))
              /\ UNCHANGED <<store, clock, hist>>
    /\ UNCHANGED <<nextId, redisConnected, cache, time, client>>

\* ----------------------------------------------------- DELETE /api/tasks/:id
\* the handler without its test of result.rows.length
DeleteStartNoTest(r, id) ==
    /\ At(r, "idle")
    /\ LET q == Arrive("delete", id, NoBody)
           n == ParseInt(id)
       IN  \/ /\ Catch(r, q, "store_fail")
              /\ UNCHANGED <<store, hist>>
           \/ /\ IsIntText(id)
              /\ store' = [m \in DOMAIN store \ {n} |-> store[m]]
              /\ AfterStatement(r, Log([q EXCEPT !.val = [id |-> n]], "stmt_ok"))
              /\ Commit
    /\ UNCHANGED <<nextId, clock, redisConnected, cache, time, client>>

DeleteStart(r, id) ==
    /\ At(r, "idle")
    /\ LET q == Arrive("delete", id, NoBody)
           n == ParseInt(id)
       IN  \/ /\ Catch(r, q, "store_fail")
              /\ UNCHANGED <<store, hist>>
           \/ /\ IsIntText(id)
              /\ n \notin DOMAIN store
              /\ Reply(r, Log(q, "stmt_ok"), 404, Err("Task not found"))
              /\ UNCHANGED <<store, hist>>
           \/ /\ IsIntText(id)
              /\ n \in DOMAIN store
              /\ store' = [m \in DOMAIN store \ {n} |-> store[m]]
              /\ AfterStatement(r, Log([q EXCEPT !.val = [id |-> n]], "stmt_ok"))
              /\ Commit
    /\ UNCHANGED <<nextId, clock, redisConnected, cache, time, client>>

\* ------------------------------------------------------------ GET /api/stats
\* COUNT(*) and the two COUNT(CASE WHEN completed = ... THEN 1 END): a CASE
\* without ELSE is NULL where the test is not true, and COUNT skips NULLs.
\* node-postgres hands a bigint as text.
CountAll(st) == ToString(Cardinality(DOMAIN st))
CountWhenCompleted(st, b) ==
    ToString(Cardinality({n \in DOMAIN st : st[n].completed = b}))
parseInt(text) == CHOOSE n \in 0..MaxId : ToString(n) = text

Stats(r) ==
    /\ At(r, "idle")
    /\ LET q == Arrive("stats", "", NoBody)
           stats == [total |-> CountAll(store),
                     completed |-> CountWhenCompleted(store, "true"),
                     pending |-> CountWhenCompleted(store, "false")]
       IN  \/ Catch(r, q, "store_fail")
           \/ Reply(r, Log(q, "query_ok"), 200,
                    [success |-> TRUE,
                     data |-> [total |-> parseInt(stats.total),
                               completed |-> parseInt(stats.completed),
                               pending |-> parseInt(stats.pending)]])
    /\ UNCHANGED <<store, nextId, clock, redisConnected, cache, time, hist, client>>

\* ---------------------------------------------------------------- GET /health
\* the catch of the route: not the body of the other routes
HealthErr(msg) == [status |-> "error", message |-> msg, timestamp |-> [iso |-> time]]
HealthOk(redisStatus) ==
    [status |-> "ok", timestamp |-> [iso |-> time],
     services |-> [api |-> "ok", database |-> "ok", cache |-> redisStatus]]

\* SELECT NOW(), then the flag
HealthStart(r) ==
    /\ At(r, "idle")
    /\ LET q == Arrive("health", "", NoBody)
       IN  \/ Reply(r, Log(q, "store_fail"), 500, HealthErr("store_fail"))
           \/ IF redisConnected
              THEN Goto(r, [Log(q, "query_ok") EXCEPT !.pc = "health_ping"])
              ELSE Reply(r, Log(q, "query_ok"), 200, HealthOk("unavailable"))
    /\ UNCHANGED <<store, nextId, clock, redisConnected, cache, time, hist, client>>

\* redisClient.ping() without a try/catch of its own: a ping that throws is
\* caught by the handler's catch
HealthPingNoCatch(r) ==
    /\ At(r, "health_ping")
    /\ \/ Reply(r, Log(req[r], "ping_ok"), 200, HealthOk("ok"))
       \/ Reply(r, Log(req[r], "ping_throw"), 500, HealthErr("ping_throw"))
    /\ UNCHANGED <<store, nextId, clock, redisConnected, cache, time, hist, client>>

\* redisClient.ping() in its own try/catch
HealthPing(r) ==
    /\ At(r, "health_ping")
    /\ \/ Reply(r, Log(req[r], "ping_ok"), 200, HealthOk("ok"))
       \/ Reply(r, Log(req[r], "ping_throw"), 200, HealthOk("error"))
    /\ UNCHANGED <<store, nextId, clock, redisConnected, cache, time, hist, client>>

\* ------------------------------------------------------------- environment
\* The response of `last' has left.  A response is written in one piece
\* (res.json is synchronous), so nothing else happens while it is held.
Sent ==
    /\ last.pc = "done"
    /\ last' = IdleReq
    /\ UNCHANGED <<store, nextId, clock, redisConnected, cache, time, req, hist, client>>

\* redisClient.on('connect')
RedisConnect ==
    /\ Ready
    /\ ~redisConnected
    /\ redisConnected' = TRUE
    /\ UNCHANGED <<store, nextId, clock, cache, time, req, last, hist, client>>

\* redisClient.on('error')
RedisError ==
    /\ Ready
    /\ redisConnected
    /\ redisConnected' = FALSE
    /\ UNCHANGED <<store, nextId, clock, cache, time, req, last, hist, client>>

\* time passes in Redis, which drops the entries whose expiration is reached
Tick ==
    /\ Ready
    /\ \E t \in Instants :
          /\ t > time
          /\ time' = t
          /\ cache' = [k \in {j \in DOMAIN cache : cache[j].exp > t} |-> cache[k]]
    /\ UNCHANGED <<store, nextId, clock, redisConnected, req, last, hist, client>>

\* ------------------------------------------------------- the page (App.jsx)
\* The page is modelled against the service as fetch shows it: a request is
\* answered in one step, which applies the statement to the table and hands
\* response.json() to the handler, or makes fetch / response.json() throw.
JsNull == "null"
Calls == 1..NCalls
NoCall == [op |-> "idle", id |-> 0, tasks |-> <<>>, body |-> NoBody]
Thrown == [thrown |-> TRUE]

\* the useState initial values
ClientInit ==
    [mounted |-> FALSE, tasks |-> <<>>, loading |-> TRUE, error |-> JsNull,
     newTask |-> [title |-> "", description |-> ""], editingTask |-> Nil,
     stats |-> [total |-> 0, completed |-> 0, pending |-> 0],
     alert |-> JsNull, calls |-> [k \in Calls |-> NoCall],
     fetchingTasks |-> FALSE, fetchingStats |-> 0, issued |-> 0,
     got |-> [created |-> {}, removed |-> {}, updated |-> [n \in {} |-> Nil],
              fetched |-> "none", wrote |-> "none"]]

ServerIdle == UNCHANGED <<redisConnected, cache, time, req, last, hist>>
StoreIdle == UNCHANGED <<store, nextId, clock>>

\* String.prototype.trim, on the titles of the model
Trim(text) == IF text \in {"", " "} THEN "" ELSE text
\* !b of JavaScript, on a JSON boolean
Not(b) == IF b = "true" THEN "false" ELSE "true"

\* alert() blocks the page until it is dismissed
Running == client.mounted /\ client.alert = JsNull
Dismiss ==
    /\ client.alert # JsNull
    /\ client' = [client EXCEPT !.alert = JsNull]
    /\ StoreIdle
    /\ ServerIdle

\* data.success of a response, nothing when fetch or response.json() threw
Success(data) == data # Thrown /\ data.success
\* history: how the list fetch and the last write ended
Fetched(c, data) ==
    [c EXCEPT !.got.fetched = IF Success(data) THEN "ok" ELSE "failed"]
Wrote(c, data) ==
    [c EXCEPT !.got.wrote = IF Success(data) THEN "ok" ELSE "failed"]

\* fetchStats(): one more fetch of /stats in flight
fetchStats(c) == [c EXCEPT !.fetchingStats = @ + 1]
\* a handler has returned
Return(c, k) == [c EXCEPT !.calls[k] = NoCall]

\* useEffect(() => { fetchTasks(); fetchStats(); }, [])
Mount ==
    /\ ~client.mounted
    /\ client' = fetchStats([client EXCEPT !.mounted = TRUE, !.loading = TRUE,
                                           !.fetchingTasks = TRUE])
    /\ StoreIdle
    /\ ServerIdle

\* fetchTasks without its finally: loading is reset where the list is set
fetchTasksNoFinally(c, data) ==
    IF data = Thrown THEN [c EXCEPT !.error = "Cannot connect to API",
                                    !.fetchingTasks = FALSE]
    ELSE IF data.success
    THEN [c EXCEPT !.tasks = data.data.items, !.error = JsNull,
                   !.loading = FALSE, !.fetchingTasks = FALSE]
    ELSE [c EXCEPT !.error = IF Falsy(data.error) THEN "Failed to fetch tasks"
                             ELSE data.error,
                   !.fetchingTasks = FALSE]

\* fetchTasks from the end of its awaits on
fetchTasks(c, data) ==
    LET d == IF data = Thrown THEN [c EXCEPT !.error = "Cannot connect to API"]
             ELSE IF data.success
             THEN [c EXCEPT !.tasks = data.data.items, !.error = JsNull]
             ELSE [c EXCEPT !.error = IF Falsy(data.error)
                                       THEN "Failed to fetch tasks"
                                       ELSE data.error]
    IN  [d EXCEPT !.loading = FALSE, !.fetchingTasks = FALSE]

TasksArrive ==
    /\ Running
    /\ client.fetchingTasks
    /\ \E data \in {Thrown, Err("store_fail")}
                   \cup {OkRead(Arr(rows), FALSE) : rows \in OrderedLists(store)} :
          client' = Fetched(fetchTasks(client, data), data)
    /\ StoreIdle
    /\ ServerIdle

\* the body of a successful GET /api/stats
StatsAnswer(st) ==
    [success |-> TRUE,
     data |-> [total |-> Cardinality(DOMAIN st),
               completed |-> Cardinality({n \in DOMAIN st : st[n].completed = "true"}),
               pending |-> Cardinality({n \in DOMAIN st : st[n].completed = "false"})]]

\* fetchStats from the end of its awaits on
StatsArrive ==
    /\ Running
    /\ client.fetchingStats > 0
    /\ \E data \in {Thrown, Err("store_fail"), StatsAnswer(store)} :
          LET c == [client EXCEPT !.fetchingStats = @ - 1]
          IN  client' = IF Success(data)
                        THEN [c EXCEPT !.stats = data.data]
                        ELSE c
    /\ StoreIdle
    /\ ServerIdle

\* the alert of a write that failed
Alert(c, data) ==
    [c EXCEPT !.alert = IF data = Thrown THEN "Erreur de connexion"
                        ELSE "Erreur: " \o data.error]

\* the user types a title
Titles == {" ", "milk"}
TypeTitle ==
    /\ Running
    /\ \E t \in Titles :
          /\ client.newTask.title # t
          /\ client' = [client EXCEPT !.newTask.title = t]
    /\ StoreIdle
    /\ ServerIdle

\* createTask up to its fetch: the handler keeps the tasks and newTask of the
\* render it was made in
createTask(k) ==
    /\ Running
    /\ client.calls[k].op = "idle"
    /\ Trim(client.newTask.title) = "" \/ client.issued < NWrites
    /\ client' =
          IF Trim(client.newTask.title) = ""
          THEN [client EXCEPT !.alert = "Le titre est requis"]
          ELSE [client EXCEPT !.issued = @ + 1, !.calls[k] =
                   [op |-> "create", id |-> 0, tasks |-> client.tasks,
                    body |-> Body(client.newTask.title, client.newTask.description,
                                  Undefined)]]
    /\ StoreIdle
    /\ ServerIdle

\* createTask from the end of its awaits on
createTaskDone(c, k, data) ==
    IF Success(data)
    THEN Return(fetchStats([c EXCEPT
            !.tasks = <<data.data>> \o c.calls[k].tasks,
            !.newTask = [title |-> "", description |-> ""],
            !.got.created = @ \cup {data.data.id}]), k)
    ELSE Return(Alert(c, data), k)

CreateArrive(k) ==
    /\ Running
    /\ client.calls[k].op = "create"
    /\ LET body == client.calls[k].body
           description == IF Falsy(body.description) THEN "" ELSE body.description
           row == NewRow(nextId, body.title, description, clock + 1)
       IN  \/ /\ \E data \in {Thrown, Err("store_fail")} :
                    client' = Wrote(createTaskDone(client, k, data), data)
              /\ StoreIdle
           \/ /\ nextId <= SeedRows + MaxCreates
              /\ clock < MaxCreates + MaxUpdates
              /\ store' = [n \in DOMAIN store \cup {nextId} |->
                             IF n = nextId THEN row ELSE store[n]]
              /\ nextId' = SerialNext(nextId)
              /\ clock' = clock + 1
              /\ \E data \in {Thrown, Ok(PgRow(row))} :
                    client' = Wrote(createTaskDone(client, k, data), data)
    /\ ServerIdle

\* updateTask up to its fetch
updateTask(k, id, updates) ==
    /\ Running
    /\ client.calls[k].op = "idle"
    /\ client.issued < NWrites
    /\ client' = [client EXCEPT !.issued = @ + 1, !.calls[k] =
                     [op |-> "update", id |-> id, tasks |-> client.tasks,
                      body |-> updates]]
    /\ StoreIdle
    /\ ServerIdle

\* editingTask?.id === task.id: the card shows the edit form, not the buttons
Editing(task) == client.editingTask # Nil /\ client.editingTask.id = task.id

\* toggleComplete(task) of a task of the list
toggleComplete(k) ==
    \E i \in DOMAIN client.tasks :
        /\ ~Editing(client.tasks[i])
        /\ updateTask(k, client.tasks[i].id,
                      Body(Undefined, Undefined, Not(client.tasks[i].completed)))

\* Modifier, Annuler, Sauvegarder
StartEdit ==
    /\ Running
    /\ \E i \in DOMAIN client.tasks :
          /\ ~Editing(client.tasks[i])
          /\ client' = [client EXCEPT !.editingTask = client.tasks[i]]
    /\ StoreIdle
    /\ ServerIdle

CancelEdit ==
    /\ Running
    /\ client.editingTask # Nil
    /\ client' = [client EXCEPT !.editingTask = Nil]
    /\ StoreIdle
    /\ ServerIdle

SaveEdit(k) ==
    /\ client.editingTask # Nil
    /\ \E i \in DOMAIN client.tasks :
          /\ Editing(client.tasks[i])
          /\ updateTask(k, client.tasks[i].id,
                        Body(client.editingTask.title, client.editingTask.description,
                             client.editingTask.completed))

\* updateTask from the end of its awaits on
updateTaskDone(c, k, data) ==
    LET seen == c.calls[k].tasks
        id == c.calls[k].id
    IN  IF Success(data)
        THEN Return(fetchStats([c EXCEPT
                !.tasks = [i \in DOMAIN seen |->
                              IF seen[i].id = id THEN data.data ELSE seen[i]],
                !.editingTask = Nil,
                !.got.updated = [n \in DOMAIN @ \cup {id} |->
                                    IF n = id THEN data.data ELSE @[n]]]), k)
        ELSE Return(Alert(c, data), k)

UpdateArrive(k) ==
    /\ Running
    /\ client.calls[k].op = "update"
    /\ LET id == client.calls[k].id
           row == UpdatedRow(store[id], client.calls[k].body, clock + 1)
       IN  \/ /\ \E data \in {Thrown, Err("store_fail")} :
                    client' = Wrote(updateTaskDone(client, k, data), data)
              /\ StoreIdle
           \/ /\ id \notin DOMAIN store
              /\ client' = Wrote(updateTaskDone(client, k, Err("Task not found")), Err("Task not found"))
              /\ StoreIdle
           \/ /\ id \in DOMAIN store
              /\ clock < MaxCreates + MaxUpdates
              /\ store' = [store EXCEPT ![id] = row]
              /\ clock' = clock + 1
              /\ \E data \in {Thrown, Ok(PgRow(row))} :
                    client' = Wrote(updateTaskDone(client, k, data), data)
              /\ UNCHANGED nextId
    /\ ServerIdle

\* deleteTask up to its fetch; confirm() may be declined
deleteTask(k) ==
    /\ Running
    /\ client.calls[k].op = "idle"
    /\ client.issued < NWrites
    /\ \E i \in DOMAIN client.tasks :
          /\ ~Editing(client.tasks[i])
          /\ client' = [client EXCEPT !.issued = @ + 1, !.calls[k] =
                           [op |-> "delete", id |-> client.tasks[i].id,
                            tasks |-> client.tasks, body |-> NoBody]]
    /\ StoreIdle
    /\ ServerIdle

\* deleteTask from the end of its awaits on
deleteTaskDone(c, k, data) ==
    LET seen == c.calls[k].tasks
        id == c.calls[k].id
    IN  IF Success(data)
        THEN Return(fetchStats([c EXCEPT
                !.tasks = SelectSeq(seen, LAMBDA task : task.id # id),
                !.got.removed = @ \cup {id}]), k)
        ELSE Return(Alert(c, data), k)

DeleteArrive(k) ==
    /\ Running
    /\ client.calls[k].op = "delete"
    /\ LET id == client.calls[k].id
       IN  \/ /\ \E data \in {Thrown, Err("store_fail")} :
                    client' = Wrote(deleteTaskDone(client, k, data), data)
              /\ UNCHANGED store
           \/ /\ id \notin DOMAIN store
              /\ client' = Wrote(deleteTaskDone(client, k, Err("Task not found")), Err("Task not found"))
              /\ UNCHANGED store
           \/ /\ id \in DOMAIN store
              /\ store' = [m \in DOMAIN store \ {id} |-> store[m]]
              /\ \E data \in {Thrown,
                              [success |-> TRUE, message |-> "Task deleted successfully",
                               id |-> id]} :
                    client' = Wrote(deleteTaskDone(client, k, data), data)
    /\ UNCHANGED <<nextId, clock>>
    /\ ServerIdle

\* ----------------------------------------------------------- specification
Init ==
    /\ store = SeedStore
    /\ nextId = SeedRows + 1
    /\ clock = 0
    /\ redisConnected = FALSE
    /\ cache = [k \in {} |-> Nil]
    /\ time = 0
    /\ req = [s \in Slots |-> IdleReq]
    /\ last = IdleReq
    /\ hist = [faulted |-> FALSE, dropped |-> {}, lastWrite |-> 0, commits |-> 0,
               made |-> [i \in 1..SeedRows |-> i]]
    /\ client = ClientInit

\* the inputs: the ids of the path, the bodies of POST and PUT
PathIds == {ToString(n) : n \in 1..MaxId}

Handlers(r, ids, posts, puts) ==
    \/ ListStart(r)
    \/ ListQuery(r)
    \/ ListSet(r)
    \/ \E id \in ids : GetStart(r, id)
    \/ GetQuery(r)
    \/ GetSet(r)
    \/ \E body \in posts : PostStart(r, body)
    \/ \E id \in ids, body \in puts : PutStart(r, id, body)
    \/ PutUpdate(r)
    \/ \E id \in ids : DeleteStart(r, id)
    \/ InvKeys(r)
    \/ InvDel(r)

\* The service with its cache: concurrent reads and writes, Redis connecting,
\* failing and disconnecting.
Next ==
    \/ \E r \in Slots :
          Handlers(r, PathIds, {Body("new", Undefined, Undefined)},
                   {Body(Undefined, Undefined, "true")})
    \/ RedisConnect
    \/ RedisError
    \/ Sent

Spec == Init /\ [][Next]_vars

\* The service while time passes in Redis: reads and creations, with Redis
\* connected once and for all (its calls may still fail).
NextTime ==
    \/ \E r \in Slots :
          \/ ListStart(r)
          \/ ListQuery(r)
          \/ ListSet(r)
          \/ \E id \in PathIds : GetStart(r, id)
          \/ GetQuery(r)
          \/ GetSet(r)
          \/ PostStart(r, Body("new", Undefined, Undefined))
          \/ InvKeys(r)
          \/ InvDel(r)
    \/ RedisConnect
    \/ Tick
    \/ Sent

SpecTime == Init /\ [][NextTime]_vars

\* The service without Redis (redisConnected stays false), with every shape
\* of body.
PostBodies ==
    {Body(t, d, Undefined) : t \in {Undefined, "", "new"}, d \in {Undefined, "text"}}
PutBodies ==
    {Body(t, d, c) : t \in {Undefined, "", SqlNull, "put"},
                     d \in {Undefined, "more"},
                     c \in {Undefined, "true", "false", SqlNull}}

NextData ==
    \/ \E r \in Slots :
          \/ \E body \in PostBodies : PostStart(r, body)
          \/ \E id \in PathIds, body \in PutBodies : PutStart(r, id, body)
          \/ PutUpdate(r)
          \/ \E id \in PathIds : DeleteStart(r, id)
          \/ InvKeys(r)
          \/ Stats(r)
    \/ Sent

SpecData == Init /\ [][NextData]_vars

\* Creations and deletions without Redis: ids are handed out, rows go away,
\* ids are handed out again.
PostMany(r, body) == Create(r, body, SeedRows + MaxCreates, MaxCreates)

NextCreate ==
    \/ \E r \in Slots :
          \/ \E body \in PostBodies : PostMany(r, body)
          \/ \E id \in PathIds : DeleteStart(r, id)
          \/ InvKeys(r)
    \/ Sent

SpecCreate == Init /\ [][NextCreate]_vars

\* The service answering one request at a time, while Redis connects, fails
\* and ages its entries.
NextSeq ==
    \/ Handlers(1, PathIds, {Body("new", Undefined, Undefined)},
                {Body(Undefined, Undefined, "true")})
    \/ RedisConnect
    \/ RedisError
    \/ Tick
    \/ Sent

SpecSeq == Init /\ [][NextSeq]_vars

\* Every route with every shape of body, one request at a time.
NextApi ==
    \/ Handlers(1, PathIds, PostBodies, PutBodies)
    \/ Stats(1)
    \/ HealthStart(1)
    \/ HealthPing(1)
    \/ RedisConnect
    \/ RedisError
    \/ Sent

SpecApi == Init /\ [][NextApi]_vars

\* The read routes with any text as the id of the path, among creations.
AnyIds == PathIds \cup {"all"}

NextPath ==
    \/ \E r \in Slots :
          \/ ListStart(r)
          \/ ListQuery(r)
          \/ ListSet(r)
          \/ \E id \in AnyIds : GetStart(r, id)
          \/ GetQuery(r)
          \/ GetSet(r)
          \/ PostStart(r, Body("new", Undefined, Undefined))
          \/ InvKeys(r)
          \/ InvDel(r)
    \/ RedisConnect
    \/ Sent

SpecPath == Init /\ [][NextPath]_vars

\* The page and its user, the service answering each request in one step.
NextClient ==
    \/ Mount
    \/ TasksArrive
    \/ StatsArrive
    \/ Dismiss
    \/ TypeTitle
    \/ StartEdit
    \/ CancelEdit
    \/ \E k \in Calls :
          \/ createTask(k)
          \/ CreateArrive(k)
          \/ toggleComplete(k)
          \/ SaveEdit(k)
          \/ UpdateArrive(k)
          \/ deleteTask(k)
          \/ DeleteArrive(k)

SpecClient == Init /\ [][NextClient]_vars

\* ------------------------------------------------------------------ claims
Done(op) == last.pc = "done" /\ last.op = op
DoneIn(ops) == last.pc = "done" /\ last.op \in ops
Logged(q, e) == \E i \in DOMAIN q.ev : q.ev[i] = e
HitStale == /\ DoneIn(Reads)
            /\ last.resp.status = 200
            /\ last.resp.body.cached
            /\ ~last.fresh

\* C1 (as claimed): with the cache working (no cache call skipped or
\* failed so far), a list or get that arrives when every committed write has been
\* answered, and during which no write commits, answers what the Store holds.
C1_ReadAfterWriteIsFresh ==
    ( /\ DoneIn(Reads)
      /\ last.quiet
      /\ ~last.dirty
      /\ ~hist.faulted
      /\ last.resp.status # 500 ) => last.fresh

\* C2: a write answered with success has, in this order, had its statement
\* return, called invalidateCache, seen it end (skipped, failed or done), and
\* only then sent its response.
Statements(op) == IF op = "put" THEN <<"query_ok", "stmt_ok">> ELSE <<"stmt_ok">>
InvalidationRuns ==
    {<<"inv_call", e, "respond">> : e \in {"inv_skip", "inv_fail", "inv_done"}}
    \cup {<<"inv_call", "inv_keys", e, "respond">> : e \in {"inv_fail", "inv_done"}}
C2_WriteOrder ==
    (DoneIn(Writes) /\ last.resp.body.success)
        => \E run \in InvalidationRuns : last.ev = Statements(last.op) \o run
C2_Witness ==
    /\ Done("delete")
    /\ last.resp.status = 200
    /\ last.ev = <<"stmt_ok", "inv_call", "inv_keys", "inv_done", "respond">>

\* C3: a list or get during which the cache was disconnected, or a cache get
\* or set threw, answers the status and data its Store read yielded; and no
\* read answers 500 unless its Store read failed.
CacheFault(q) == Logged(q, "cache_off") \/ Logged(q, "get_throw") \/ Logged(q, "set_throw")
C3_CacheOutageNeverFailsRead ==
    DoneIn(Reads) =>
        /\ CacheFault(last) =>
              /\ last.resp.status \in {200, 404, 500}
              /\ Answer(last.resp) = last.truth
              /\ last.resp.status = 200 => ~last.resp.body.cached
        /\ last.resp.status = 500 => Logged(last, "store_fail")
C3_Witness ==
    /\ Done("get")
    /\ Logged(last, "get_throw")
    /\ Logged(last, "set_throw")
    /\ last.resp.status = 200

\* C4: the step in which a write answers after its invalidation was skipped
\* or failed answers 201 (create) or 200 (update, delete) with success, and
\* leaves the Store as the statement left it.
MissedInvalidation(q) == Logged(q, "inv_skip") \/ Logged(q, "inv_fail")
SuccessStatus(op) == IF op = "post" THEN 201 ELSE 200
C4_InvalidationFailureKeepsWrite ==
    [][ (last'.pc = "done" /\ last'.op \in Writes /\ MissedInvalidation(last'))
            => /\ last'.resp.status = SuccessStatus(last'.op)
               /\ last'.resp.body.success
               /\ store' = store ]_vars
C4_Witness ==
    /\ Done("post")
    /\ last.ev = <<"stmt_ok", "inv_call", "inv_keys", "inv_fail", "respond">>
    /\ last.resp.status = 201
    /\ last.resp.body.data.id \in DOMAIN store

\* C5 (as claimed): a read answered from the cache, arrived when every
\* committed write had been answered, answers what the Store holds unless a
\* cache call was skipped or failed, and then no later than the entry's
\* time-to-live after the last committed write (every stale value became
\* stale at a write no later than that one).
TTL(op) == IF op = "list" THEN ListTTL ELSE ItemTTL
C5_StalenessBounded ==
    (HitStale /\ last.quiet)
        => (hist.faulted /\ time - hist.lastWrite <= TTL(last.op))

\* C6 (as claimed): every row of the table has a non-empty title.
C6_TitleNeverEmpty == \A n \in DOMAIN store : store[n].title \notin {"", SqlNull}

\* C7 (as claimed): the counts GET /api/stats answers add up.
C7_StatsAddUp ==
    (Done("stats") /\ last.resp.status = 200)
        => last.resp.body.data.total
              = last.resp.body.data.completed + last.resp.body.data.pending

\* C8 (as claimed): a PUT whose body supplies no field, and whose queries
\* the Store answers, is answered 400 and leaves the Store unchanged, whether
\* a row of that id exists or not.
C8_EmptyUpdateIsValidationError ==
    [][ (last'.pc = "done" /\ last'.op = "put" /\ Supplied(last'.body) = {}
         /\ ~Logged(last', "store_fail"))
            => (last'.resp.status = 400 /\ store' = store) ]_vars

\* C9 (as claimed): a PUT answered 200 carries the updated row of that id; a
\* PUT whose UPDATE finds no row is answered 404.
C9_UpdateOfMissingRowIsNotFound ==
    (Done("put") /\ last.resp.status = 200)
        => /\ "data" \in DOMAIN last.resp.body
           /\ last.resp.body.data.id = ParseInt(last.id)

\* C10 (as claimed): the UPDATE of a PUT that is then answered 200 gives the
\* supplied fields the supplied values, leaves the other fields, id and
\* created_at of the row and every other row as they were, and moves
\* updated_at forward.
PutFrame(q, before, after) ==
    LET n == ParseInt(q.id)
    IN  /\ n \in DOMAIN before
        /\ DOMAIN after = DOMAIN before
        /\ \A m \in DOMAIN before \ {n} : after[m] = before[m]
        /\ \A f \in {"title", "description", "completed"} :
              after[n][f] = IF f \in Supplied(q.body) THEN q.body[f] ELSE before[n][f]
        /\ after[n].id = before[n].id
        /\ after[n].created_at = before[n].created_at
        /\ after[n].updated_at > before[n].updated_at
C10_UpdateFrame ==
    [][ \A r \in Slots :
           (req[r].pc = "put_update" /\ req'[r].pc = "inv_keys")
               => PutFrame(req[r], store, store') ]_vars

\* C11: the id a create answers with 201 was handed out once, to this record
\* only, among all the rows ever inserted (deleted ones included), and the
\* record's created_at equals its updated_at.
Count(seq, x) == Cardinality({i \in DOMAIN seq : seq[i] = x})
C11_CreatedIdIsFresh ==
    (Done("post") /\ last.resp.status = 201)
        => /\ Count(hist.made, last.resp.body.data.id) = 1
           /\ last.resp.body.data.created_at = last.resp.body.data.updated_at
C11_Witness ==
    /\ Done("post")
    /\ last.resp.status = 201
    /\ last.resp.body.data.id = 2
    /\ hist.made = <<1, 2>>
    /\ 1 \notin DOMAIN store

\* C12: the step in which a DELETE's statement runs while the table has no
\* row of that id (and the Store answers) sends 404, leaves the Store and
\* the cache as they are, and does not call invalidateCache.
DeleteAnswers == last'.pc = "done" /\ last'.op = "delete" /\ req' = req
DeleteGoesOn(r) == req[r].pc = "idle" /\ req'[r].op = "delete"
C12_DeleteOfMissingIsNotFound ==
    [][ /\ (DeleteAnswers /\ ParseInt(last'.id) \notin DOMAIN store
                /\ ~Logged(last', "store_fail"))
            => /\ last'.resp.status = 404
               /\ last'.resp.body = Err("Task not found")
               /\ ~Logged(last', "inv_call")
               /\ store' = store
               /\ cache' = cache
        /\ \A r \in Slots :
              DeleteGoesOn(r) => ParseInt(req'[r].id) \in DOMAIN store ]_vars
C12_Witness ==
    /\ Done("delete")
    /\ last.resp.status = 404
    /\ CacheKeyAll \in LiveKeys
    /\ ParseInt(last.id) \notin DOMAIN store

\* C13: when requests do not overlap and no cache call was skipped or
\* failed, a list or get answers what the Store holds (or 500 when its Store
\* read fails), also after an invalidation has deleted entries.
C13_SequentialReadsAreFresh ==
    (DoneIn(Reads) /\ ~hist.faulted /\ last.resp.status # 500) => last.fresh
C13_Witness ==
    /\ Done("get")
    /\ last.resp.status = 404
    /\ last.id = "1"
    /\ ~hist.faulted
    /\ CacheKeyId("1") \in hist.dropped
    /\ hist.made = <<1>>

\* C14: the step in which a POST whose title is absent or empty is answered
\* sends 400 "Title is required" without any Store statement or call of
\* invalidateCache, and leaves the table, its sequence and the cache as they
\* are.
C14_CreateWithoutTitleIsRejected ==
    [][ (last'.pc = "done" /\ last'.op = "post"
         /\ last'.body.title \in {Undefined, ""})
            => /\ last'.resp = [status |-> 400, body |-> Err("Title is required")]
               /\ last'.ev = <<"respond">>
               /\ store' = store
               /\ nextId' = nextId
               /\ cache' = cache ]_vars
C14_Witness ==
    /\ Done("post")
    /\ last.body.title = ""
    /\ last.resp.status = 400
    /\ last.resp.body.error = "Title is required"

\* C15 (as claimed): a POST or PUT answered 400 has issued no Store query.
StoreCalls == {"query_ok", "stmt_ok", "store_fail"}
C15_ValidationBeforeStore ==
    (DoneIn({"post", "put"}) /\ last.resp.status = 400)
        => \A e \in StoreCalls : ~Logged(last, e)

\* C16: the INSERT of a POST with a title and no description adds, under an
\* id the table did not hold, a row with that title, description "" and
\* completed false, and touches no other row; the 201 that follows returns
\* that row as the INSERT returned it.
InsertStep(r) == req[r].pc = "idle" /\ req'[r].op = "post" /\ req'[r].pc = "inv_keys"
CreatedStep(r) ==
    /\ req[r].op = "post"
    /\ req[r].pc \in {"inv_keys", "inv_del"}
    /\ last'.pc = "done"
    /\ last'.op = "post"
    /\ req'[r].pc = "idle"
C16_CreateDefaults ==
    [][ \A r \in Slots :
          /\ (InsertStep(r) /\ req'[r].body.description = Undefined) =>
                LET task == req'[r].val
                IN  /\ task.title = req'[r].body.title
                    /\ task.description = ""
                    /\ task.completed = "false"
                    /\ task.id \notin DOMAIN store
                    /\ DOMAIN store' = DOMAIN store \cup {task.id}
                    /\ PgRow(store'[task.id]) = task
                    /\ \A n \in DOMAIN store : store'[n] = store[n]
          /\ CreatedStep(r) =>
                last'.resp = [status |-> 201,
                              body |-> [success |-> TRUE, data |-> ToJSON(req[r].val)]]
      ]_vars
C16_Witness ==
    /\ Done("post")
    /\ last.resp.status = 201
    /\ last.body = Body("new", Undefined, Undefined)
    /\ last.resp.body.data.description = ""
    /\ last.resp.body.data.completed = "false"
    /\ last.resp.body.data.id \in DOMAIN store
    /\ ToJSON(PgRow(store[last.resp.body.data.id])) = last.resp.body.data

\* C17 (as claimed): a response of status 400, 404 or 500 has the body
\* {success: false, error: <string>}; 400 answers a POST without title or a
\* PUT without field, 404 a get, update or delete of an id without row, and
\* 500 a failure of the Store.
C17_ErrorShape ==
    (last.pc = "done" /\ last.resp.status \in {400, 404, 500})
        => /\ DOMAIN last.resp.body = {"success", "error"}
           /\ last.resp.body.success = FALSE
           /\ last.resp.status = 400 =>
                 \/ last.op = "post" /\ Falsy(last.body.title)
                 \/ last.op = "put" /\ Supplied(last.body) = {}
           /\ last.resp.status = 404 =>
                 /\ last.op \in {"get", "put", "delete"}
                 /\ ParseInt(last.id) \notin DOMAIN store
           /\ last.resp.status = 500 => Logged(last, "store_fail")

\* C18: a list or get whose cache get succeeds on a key that is present and
\* unexpired answers at once, without Store query, the cached value with
\* cached: true; any other goes to the Store.  A read whose Store read found
\* data answers it with cached: false and, when the cache set succeeds, leaves
\* it under the key with expiration 60 s (list) or 300 s (one task); a get
\* that finds no row answers 404 and stores nothing.
KeyOf(q) == IF q.op = "list" THEN CacheKeyAll ELSE CacheKeyId(q.id)
ReadStarts(q) ==
    /\ q.op \in Reads
    /\ \/ \E r \in Slots : req[r].pc = "idle" /\ req'[r] = q
       \/ last' = q /\ last'.pc = "done" /\ req' = req
ReadThroughStart(q) ==
    /\ (q.ev[1] = "cache_off") = ~redisConnected
    /\ IF q.ev[1] = "get_ok" /\ KeyOf(q) \in LiveKeys
       THEN /\ q.pc = "done"
            /\ q.ev = <<"get_ok", "respond">>
            /\ q.resp = [status |-> 200,
                          body |-> [success |-> TRUE, cached |-> TRUE,
                                    data |-> cache[KeyOf(q)].data.json]]
       ELSE q.pc \in {"list_query", "get_query"}
ReadThroughSet(r) ==
    LET q == req[r]
    IN  /\ last'.resp = [status |-> 200,
                         body |-> [success |-> TRUE, cached |-> FALSE,
                                   data |-> q.truth.data]]
        /\ IF Logged(last', "set_ok")
           THEN /\ redisConnected
                /\ KeyOf(q) \in DOMAIN cache'
                /\ cache'[KeyOf(q)] = [data |-> [json |-> q.truth.data],
                                         exp |-> time + TTL(q.op)]
                /\ \A k \in DOMAIN cache' \ {KeyOf(q)} :
                      k \in DOMAIN cache /\ cache'[k] = cache[k]
           ELSE cache' = cache
ReadThroughMiss(r) ==
    (last'.pc = "done" /\ last'.resp.status = 404) => cache' = cache
C18_ReadThrough ==
    [][ /\ \A q \in {last'} \cup {req'[r] : r \in Slots} :
              ReadStarts(q) => ReadThroughStart(q)
        /\ \A r \in Slots :
              /\ (req[r].pc \in {"list_set", "get_set"} /\ req'[r].pc = "idle")
                    => ReadThroughSet(r)
              /\ (req[r].pc = "get_query" /\ req'[r].pc = "idle")
                    => ReadThroughMiss(r) ]_vars
C18_Witness ==
    /\ Done("list")
    /\ last.resp.status = 200
    /\ last.resp.body.cached
    /\ last.resp.body.data = Arr(<<>>)
    /\ time = ListTTL + Delay - 1

\* C19 (as claimed): when a write is answered after invalidateCache has
\* returned without error on a connected cache, Redis holds no key.
C19_InvalidationLeavesNoKey ==
    (DoneIn(Writes) /\ Logged(last, "inv_done")) => LiveKeys = {}

\* C20 (as claimed): a get by id answers one task whose id is the id of the
\* path, or 404, or 500 when its Store query fails; never a list.
C20_GetAnswersOneTask ==
    Done("get") =>
        \/ /\ last.resp.status = 200
           /\ ~IsArr(last.resp.body.data)
           /\ ToString(last.resp.body.data.id) = last.id
        \/ last.resp.status = 404
        \/ last.resp.status = 500 /\ Logged(last, "store_fail")

\* ------------------------------------------------------------------- client
\* no createTask, updateTask or deleteTask is between its fetch and its end,
\* and the list fetch of the mount has ended
Settled == ~client.fetchingTasks /\ \A k \in Calls : client.calls[k].op = "idle"
ShownIds == {client.tasks[i].id : i \in DOMAIN client.tasks}

\* C21: once every create, update and delete of the page has had its
\* response, the task list of the page holds the effect of each successful
\* one: every task created and not deleted is in it, no deleted task is in
\* it, and a task that was updated is shown as the record the last update
\* returned; this also when two requests were in flight together.
C21_ListHoldsEveryEffect ==
    Settled =>
        /\ (client.got.created \ client.got.removed) \subseteq ShownIds
        /\ client.got.removed \cap ShownIds = {}
        /\ \A i \in DOMAIN client.tasks :
              client.tasks[i].id \in DOMAIN client.got.updated
                  => client.tasks[i] = client.got.updated[client.tasks[i].id]

\* a step in which call k of the page ends
Ends(k) == client.calls[k].op # "idle" /\ client'.calls[k].op = "idle"
\* a step in which the list fetch of the mount ends
FetchEnds == client.fetchingTasks /\ ~client'.fetchingTasks

\* C22: a create, update or delete that fails (success:false or a thrown
\* fetch) changes nothing of the page but to show its alert and to end the
\* call: the task list, the banner, the loading flag, the form and the edit
\* in progress are as they were, and the call's slot is free for a retry.
\* The list fetch ends with loading false whether it failed or not, and a
\* failed one leaves the error banner set.
C22_FailureFrame ==
    [][/\ \A k \in Calls :
             (Ends(k) /\ client'.got.wrote = "failed")
                 => /\ client'.alert # JsNull
                    /\ client' = [client EXCEPT !.alert = client'.alert,
                                                !.calls[k] = NoCall,
                                                !.got.wrote = "failed"]
       /\ FetchEnds
             => /\ ~client'.loading
                /\ client'.got.fetched = "failed"
                      => client'.error # JsNull /\ client'.tasks = client.tasks
      ]_vars

\* a list fetch that failed and, later, a write that failed on a list that
\* holds a task: the banner is set, loading is over, the call has ended
C22_Witness ==
    /\ client.got.fetched = "failed"
    /\ client.got.wrote = "failed"
    /\ client.error # JsNull
    /\ ~client.loading
    /\ Len(client.tasks) > 0
    /\ client.alert # JsNull
    /\ \A k \in Calls : client.calls[k].op = "idle"

\* ------------------------------------------------------------------- health
\* a step in which GET /health sends its response
HealthAnswers == last.pc = "idle" /\ last'.pc = "done" /\ last'.op = "health"
\* a step in which GET /health goes on to the ping
HealthGoesToPing(r) == req[r].pc = "idle" /\ req'[r].pc = "health_ping"

\* C23: GET /health answers 500 only when its Store query failed.  When the
\* query succeeded it answers 200, and services.cache is 'unavailable' when
\* redisConnected is false as the handler looks at it (no ping is sent
\* then), 'ok' when a ping was sent and succeeded, 'error' when a ping was
\* sent and threw; a ping is sent only when redisConnected is true.
C23_HealthNeverFailsOnCache ==
    [][/\ HealthAnswers =>
             IF Logged(last', "store_fail")
             THEN last'.resp.status = 500
             ELSE /\ last'.resp.status = 200
                  /\ last'.resp.body.status = "ok"
                  /\ last'.resp.body.services.cache =
                        IF Logged(last', "ping_ok") THEN "ok"
                        ELSE IF Logged(last', "ping_throw") THEN "error"
                        ELSE "unavailable"
                  /\ (~Logged(last', "ping_ok") /\ ~Logged(last', "ping_throw"))
                        => ~redisConnected
       /\ \A r \in Slots : HealthGoesToPing(r) => redisConnected
      ]_vars

\* the ping threw, and GET /health has answered 200 with cache 'error'
C23_Witness ==
    /\ Done("health")
    /\ Logged(last, "ping_throw")
    /\ last.resp.status = 200
    /\ last.resp.body.services.cache = "error"

=============================================================================
